---- MODULE Spec2Model ----
(***************************************************************************)
(* Model of fox-server (src/main.go): the bounded ingestion channel and    *)
(* its single consumer, the chromem collection "fox", the global message   *)
(* history and the per-request goroutines of the three HTTP handlers.      *)
(***************************************************************************)
EXTENDS Integers, Sequences, FiniteSets, TLC

\* ------------------------------------------------------------------ bounds

\* Number of POST /event requests of a run.
MaxEvents == 3

\* Capacity of the events channel, make(chan string, 4096) scaled down so
\* that a full channel is reached.
Capacity == 2

\* Number of POST /query requests of a run.
MaxQueries == 2

\* Number of POST /event requests that run beside the queries.
MaxQueryEvents == 1

\* Number of queries and of events of the runs that race a query with the
\* consumer.
MaxRetrieveQueries == 1
MaxRetrieveEvents == 2

\* Number of response objects the model server may answer a chat with.
MaxChunks == 2

\* Width of the hash space: xxh3.HashString yields 64 bits, scaled down.
HashSpace == 4

\* ------------------------------------------------------------------ values

\* Request bodies: strings as sequences of character codes.
Bodies == {<<1>>, <<2>>, <<2, 3>>}

NoBody == <<0>>

EventReqs == 1..MaxEvents

QueryReqs == 1..MaxQueries

\* Bodies of POST /query.
Questions == {<<5>>, <<6>>}

\* Contents of the model's response.
Answers == {<<8>>, <<9>>}

\* Character codes: the line feed, and the fixed text of the constants
\* Prompt and Query.
NL == 10
PromptText == <<20>>
QueryHead == <<21>>
QueryMid == <<22>>

NoMsgs == [arr |-> 0, len |-> 0]

RECURSIVE HashString(_)
\* xxh3.HashString(event): a deterministic function from strings of any
\* length to a fixed-width integer (hence not injective).
HashString(s) ==
    IF s = <<>> THEN 0
    ELSE (HashString(SubSeq(s, 1, Len(s) - 1)) * 31 + s[Len(s)]) % HashSpace

RECURSIVE Hex(_)
\* fmt.Sprintf("%x", n): the hexadecimal digits of n, most significant first.
Hex(n) == IF n < 16 THEN <<n>> ELSE Hex(n \div 16) \o <<n % 16>>

\* The document id of an event (main.go:71).
DocID(event) == Hex(HashString(event))

\* ------------------------------------------------------------------ state

VARIABLES
    events,     \* buffer of the channel `events`
    sendq,      \* handlers parked in the channel's send queue, oldest first
    epc,        \* POST /event handler -> position
    ebody,      \* POST /event handler -> body read
    cpc,        \* position of the consume goroutine
    cevent,     \* consume's loop variable `event`
    colExists,  \* db holds the collection "fox"
    documents,  \* the collection's documents: id -> content
    messages,   \* the slice header of the global `messages`
    arrays,     \* the backing arrays that slice headers point into
    qpc,        \* POST /query handler -> position
    qbody,      \* POST /query handler -> body read
    qn,         \* query -> the value of col.Count() passed as nResults
    qres,       \* query -> `res`, the contents retrieved
    qh,         \* query -> the slice header read by a running history()
    qreq,       \* query -> req.Messages
    gpc,        \* query -> position of its goroutine
    ganswer,    \* query -> res.Message.Content of the model's response
    gchunks,    \* query -> the contents of the responses Chat reads
    gidx,       \* query -> the response the callback runs for
    answer,     \* query -> its channel `answer`
    qgot,       \* query -> what the handler received and responded with
    qerr,       \* query -> "none", or the error its handler panicked with
    ppc,        \* position of the preload goroutine
    lastGet,    \* the last response of GET /event
    mpc,        \* position of main
    closed,     \* the channel `events` is closed
    panicked,   \* "none", or what ended the process: the goroutine that
                \* panicked, or "exit" when main returned
    accepted,   \* history: the items in the order the channel accepted them
    inserted,   \* history: the items in the order AddDocument stored them
    blocked     \* history: the handlers that found the channel full

ingestVars == <<events, sendq, epc, ebody, accepted, blocked>>
consumeVars == <<cpc, cevent>>
storeVars == <<colExists, documents, inserted>>
histVars == <<messages, arrays>>
handlerVars == <<qpc, qbody, qn, qres, qreq, qgot, qerr>>
goVars == <<gpc, ganswer, gchunks, gidx, answer>>
queryVars == <<handlerVars, goVars, qh>>
otherVars == <<ppc, lastGet, mpc, closed>>

vars == <<ingestVars, consumeVars, storeVars, histVars, queryVars, otherVars,
          panicked>>

\* A process that outlives the panic of a goroutine.
RunningAlways == TRUE

\* An unrecovered panic of a goroutine, or the return of main, ends the
\* process.
Running == panicked = "none"

\* col.Count(): the number of documents of the collection.
Count == Cardinality(DOMAIN documents)

\* api.Message{Role, Content}; `of` records the query that made the message
\* (0 for the system message).
Message(role, of, content) == [role |-> role, of |-> of, content |-> content]

\* The elements a slice header covers.
Slice(h) == IF h.len = 0 THEN <<>> ELSE SubSeq(arrays[h.arr].elems, 1, h.len)

\* The value of the global `messages`.
History == Slice(messages)

NoChan == [buf |-> <<>>, closed |-> FALSE]

\* The state when server.Run starts: preload and consume are started
\* (main.go:154-156) and history("System", Prompt) has run (main.go:158).
Init ==
    /\ events = <<>>
    /\ sendq = <<>>
    /\ epc = [e \in EventReqs |-> "idle"]
    /\ ebody = [e \in EventReqs |-> NoBody]
    /\ cpc = "create"
    /\ cevent = NoBody
    /\ colExists = FALSE
    /\ documents = <<>>
    /\ arrays = <<[cap |-> 1, elems |-> <<Message("System", 0, PromptText)>>]>>
    /\ messages = [arr |-> 1, len |-> 1]
    /\ qpc = [q \in QueryReqs |-> "idle"]
    /\ qbody = [q \in QueryReqs |-> NoBody]
    /\ qn = [q \in QueryReqs |-> 0]
    /\ qres = [q \in QueryReqs |-> <<>>]
    /\ qh = [q \in QueryReqs |-> NoMsgs]
    /\ qreq = [q \in QueryReqs |-> NoMsgs]
    /\ gpc = [q \in QueryReqs |-> "none"]
    /\ ganswer = [q \in QueryReqs |-> NoBody]
    /\ gchunks = [q \in QueryReqs |-> <<>>]
    /\ gidx = [q \in QueryReqs |-> 0]
    /\ answer = [q \in QueryReqs |-> NoChan]
    /\ qgot = [q \in QueryReqs |-> NoBody]
    /\ qerr = [q \in QueryReqs |-> "none"]
    /\ ppc = "call"
    /\ lastGet = <<>>
    /\ mpc = "serve"
    /\ closed = FALSE
    /\ panicked = "none"
    /\ accepted = <<>>
    /\ inserted = <<>>
    /\ blocked = {}

\* ------------------------------------------------------------- POST /event

\* Requests are numbered in the order of their arrival.
Arrived(pc, r) == IF r = 1 THEN TRUE ELSE pc[r - 1] # "idle"

\* A handler that enqueues what it has read when the read fails.
EventReadPartial(e) ==
    /\ Running
    /\ epc[e] = "idle"
    /\ Arrived(epc, e)
    /\ \/ \E b \in Bodies :
            /\ ebody' = [ebody EXCEPT ![e] = b]
            /\ epc' = [epc EXCEPT ![e] = "send"]
            /\ UNCHANGED <<events, accepted>>
       \/ /\ epc' = [epc EXCEPT ![e] = "aborted"]
          /\ Len(events) < Capacity
          /\ events' = Append(events, <<>>)
          /\ accepted' = Append(accepted, <<>>)
          /\ UNCHANGED ebody
    /\ UNCHANGED <<sendq, blocked>>
    /\ UNCHANGED <<storeVars, consumeVars, histVars, queryVars, otherVars, panicked>>

\* main.go:171-176: the body is read; a read error ends the request.
EventRead(e) ==
    /\ Running
    /\ epc[e] = "idle"
    /\ Arrived(epc, e)
    /\ \/ \E b \in Bodies :
            /\ ebody' = [ebody EXCEPT ![e] = b]
            /\ epc' = [epc EXCEPT ![e] = "send"]
       \/ /\ epc' = [epc EXCEPT ![e] = "aborted"]
          /\ UNCHANGED ebody
    /\ UNCHANGED <<events, sendq, accepted, blocked>>
    /\ UNCHANGED <<storeVars, consumeVars, histVars, queryVars, otherVars, panicked>>

\* A buffer that counts as full one value late.
FullLate == Len(events) > Capacity

\* The buffer of the channel holds as many values as it has room for.
Full == Len(events) >= Capacity

\* main.go:178, events <- string(body): with room in the buffer the value
\* is enqueued and the handler goes on; with a full buffer the handler parks
\* in the send queue; a send on the closed channel panics in the handler
\* (500).
EventSend(e) ==
    /\ Running
    /\ epc[e] = "send"
    /\ IF closed
       THEN /\ epc' = [epc EXCEPT ![e] = "failed"]
            /\ UNCHANGED <<events, sendq, accepted, blocked>>
       ELSE IF ~Full
       THEN /\ events' = Append(events, ebody[e])
            /\ accepted' = Append(accepted, ebody[e])
            /\ epc' = [epc EXCEPT ![e] = "respond"]
            /\ UNCHANGED <<sendq, blocked>>
       ELSE /\ sendq' = Append(sendq, e)
            /\ blocked' = blocked \cup {e}
            /\ epc' = [epc EXCEPT ![e] = "parked"]
            /\ UNCHANGED <<events, accepted>>
    /\ UNCHANGED ebody
    /\ UNCHANGED <<storeVars, consumeVars, histVars, queryVars, otherVars, panicked>>

\* main.go:180, c.Status(http.StatusOK).
EventRespond(e) ==
    /\ Running
    /\ epc[e] = "respond"
    /\ epc' = [epc EXCEPT ![e] = "done"]
    /\ UNCHANGED <<events, sendq, ebody, accepted, blocked>>
    /\ UNCHANGED <<storeVars, consumeVars, histVars, queryVars, otherVars, panicked>>

\* ----------------------------------------------------------------- consume

\* main.go:61-67, db.GetOrCreateCollection("fox", nil, fn) on the in-memory
\* database.
ConsumeCreate ==
    /\ Running
    /\ cpc = "create"
    /\ colExists' = TRUE
    /\ cpc' = "recv"
    /\ UNCHANGED <<documents, inserted, cevent, panicked>>
    /\ UNCHANGED <<ingestVars, histVars, queryVars, otherVars>>

\* A receive that puts the parked sender's value in front of the buffer.
RecvBufferFront ==
    IF sendq = <<>> THEN Tail(events)
    ELSE <<ebody[Head(sendq)]>> \o Tail(events)

\* The buffer after a receive: the head leaves; the oldest parked sender's
\* value enters at the tail.
RecvBuffer ==
    IF sendq = <<>> THEN Tail(events)
    ELSE Append(Tail(events), ebody[Head(sendq)])

\* main.go:69, for event := range events: one receive from the channel.
\* A parked sender is woken by the receive that makes room for its value.
ConsumeRecv ==
    /\ Running
    /\ cpc = "recv"
    /\ events # <<>>
    /\ cevent' = Head(events)
    /\ events' = RecvBuffer
    /\ IF sendq = <<>>
       THEN UNCHANGED <<sendq, epc, accepted>>
       ELSE /\ sendq' = Tail(sendq)
            /\ epc' = [epc EXCEPT ![Head(sendq)] = "respond"]
            /\ accepted' = Append(accepted, ebody[Head(sendq)])
    /\ cpc' = "add"
    /\ UNCHANGED <<ebody, blocked, panicked>>
    /\ UNCHANGED <<storeVars, histVars, queryVars, otherVars>>

\* main.go:69 and 79: the range loop ends, and consume returns, when the
\* channel is closed and its buffer empty.
ConsumeExit ==
    /\ Running
    /\ cpc = "recv"
    /\ events = <<>>
    /\ closed
    /\ cpc' = "exited"
    /\ UNCHANGED <<cevent, panicked>>
    /\ UNCHANGED <<ingestVars, storeVars, histVars, queryVars, otherVars>>

\* An insert that starts the map afresh.
UpsertFresh(docs, id, content) == [i \in {id} |-> content]

\* c.documents[doc.ID] = &doc: the document replaces any document of its id.
Upsert(docs, id, content) ==
    [i \in DOMAIN docs \cup {id} |-> IF i = id THEN content ELSE docs[i]]

\* main.go:70-77, col.AddDocument: the embedder is called and the document
\* stored under its id; an error of AddDocument panics the goroutine, which
\* ends the process.
ConsumeAdd ==
    /\ Running
    /\ cpc = "add"
    /\ \/ /\ documents' = Upsert(documents, DocID(cevent), cevent)
          /\ inserted' = Append(inserted, cevent)
          /\ cpc' = "recv"
          /\ cevent' = NoBody
          /\ UNCHANGED panicked
       \/ /\ panicked' = "consume"
          /\ UNCHANGED <<documents, inserted, cpc, cevent>>
    /\ UNCHANGED colExists
    /\ UNCHANGED <<ingestVars, histVars, queryVars, otherVars>>

\* ------------------------------------------------------------ GET /event

\* A GET /event that reports the count and empties the collection.
GetEventClearing ==
    /\ Running
    /\ lastGet' = IF colExists THEN <<200, Count>> ELSE <<500>>
    /\ lastGet' # lastGet
    /\ documents' = <<>>
    /\ UNCHANGED <<colExists, inserted>>
    /\ UNCHANGED <<ingestVars, consumeVars, histVars, queryVars,
                   ppc, mpc, closed, panicked>>

\* main.go:162-168: db.GetCollection("fox", nil) is nil while the collection
\* does not exist and col.Count() then panics; gin's recovery answers 500.
GetEvent ==
    /\ Running
    /\ lastGet' = IF colExists THEN <<200, Count>> ELSE <<500>>
    /\ lastGet' # lastGet
    /\ UNCHANGED <<ingestVars, consumeVars, storeVars, histVars, queryVars,
                   ppc, mpc, closed, panicked>>

\* ----------------------------------------------------------------- preload

\* main.go:81-92: one Chat call without messages; an error panics.
Preload ==
    /\ Running
    /\ ppc = "call"
    /\ \/ /\ ppc' = "done"
          /\ UNCHANGED panicked
       \/ /\ panicked' = "preload"
          /\ UNCHANGED ppc
    /\ UNCHANGED <<ingestVars, consumeVars, storeVars, histVars, queryVars,
                   lastGet, mpc, closed>>

\* -------------------------------------------------------------------- main

\* main.go:196-200: server.Run returns; with an error main panics.
ServerReturn ==
    /\ Running
    /\ mpc = "serve"
    /\ \/ /\ panicked' = "main"
          /\ UNCHANGED mpc
       \/ /\ mpc' = "close"
          /\ UNCHANGED panicked
    /\ UNCHANGED <<ingestVars, consumeVars, storeVars, histVars, queryVars,
                   ppc, lastGet, closed>>

\* The handlers parked in the send queue.
Parked == {sendq[i] : i \in 1..Len(sendq)}

\* main.go:202, close(events): the senders parked on the channel wake and
\* panic in their handlers (500); the buffered values stay receivable.
MainClose ==
    /\ Running
    /\ mpc = "close"
    /\ closed' = TRUE
    /\ epc' = [e \in EventReqs |-> IF e \in Parked THEN "failed" ELSE epc[e]]
    /\ sendq' = <<>>
    /\ mpc' = "return"
    /\ UNCHANGED <<events, ebody, accepted, blocked>>
    /\ UNCHANGED <<consumeVars, storeVars, histVars, queryVars, ppc, lastGet,
                   panicked>>

\* main.go:203: main returns, which ends the process with its goroutines.
MainReturn ==
    /\ Running
    /\ mpc = "return"
    /\ panicked' = "exit"
    /\ UNCHANGED <<ingestVars, consumeVars, storeVars, histVars, queryVars,
                   otherVars>>

\* ----------------------------------------------------------------- history

\* The capacity append gives a slice that has outgrown its array.
GrownCap(c) == IF c = 0 THEN 1 ELSE 2 * c

\* The array h points into, with m stored at index h.len + 1.
StoreAt(h, m) ==
    LET a == arrays[h.arr]
    IN  [a EXCEPT !.elems = SubSeq(@, 1, h.len) \o <<m>>
                            \o SubSeq(@, h.len + 2, Len(@))]

\* append(h, m) on the arrays: within the capacity the element is stored in
\* place; beyond it the elements are copied to a new array.
AppendArrays(h, m) ==
    IF h.len < arrays[h.arr].cap
    THEN [arrays EXCEPT ![h.arr] = StoreAt(h, m)]
    ELSE Append(arrays, [cap |-> GrownCap(arrays[h.arr].cap),
                         elems |-> Append(Slice(h), m)])

\* The slice header append(h, m) returns.
AppendHeader(h, m) ==
    IF h.len < arrays[h.arr].cap
    THEN [arr |-> h.arr, len |-> h.len + 1]
    ELSE [arr |-> Len(arrays) + 1, len |-> h.len + 1]

\* main.go:54, messages = append(messages, ...): the store of the element
\* and of the new header, from the header h read before. No lock orders the
\* load of the header and this store among the goroutines; each of the two
\* is taken as one access of the whole header (pointer, length, capacity).
HistoryStore(h, m) ==
    /\ arrays' = AppendArrays(h, m)
    /\ messages' = AppendHeader(h, m)

\* ------------------------------------------------------------- POST /query

RECURSIVE Join(_)
\* main.go:103-107: the contents retrieved, each followed by a line feed.
Join(res) ==
    IF res = <<>> THEN <<>> ELSE Head(res) \o <<NL>> \o Join(Tail(res))

\* fmt.Sprintf(Query, input, events).
Sprintf(input, context) == QueryHead \o input \o QueryMid \o context

\* A similarity query that returns every document whatever n is.
RankingsAll(n) ==
    {r \in [1..Count -> DOMAIN documents] :
        \A i, j \in 1..Count : i # j => r[i] # r[j]}

\* The sequences of n distinct stored contents: the results of a similarity
\* query for n results, in some order of relevance.
Rankings(n) ==
    {r \in [1..n -> DOMAIN documents] :
        \A i, j \in 1..n : i # j => r[i] # r[j]}

Contents(r) == [i \in DOMAIN r |-> documents[r[i]]]

\* main.go:109: the message history("User", ...) appends.
UserMessage(q) == Message("User", q, Sprintf(qbody[q], Join(qres[q])))

\* The assistant message under the role of the prompt.
AssistantMessageAsSystem(q) == Message("System", q, ganswer[q])

\* main.go:129: the message history("Assistant", ...) appends.
AssistantMessage(q) == Message("Assistant", q, ganswer[q])

\* main.go:184-189: the body is read; a read error ends the request.
QueryRead(q) ==
    /\ Running
    /\ qpc[q] = "idle"
    /\ Arrived(qpc, q)
    /\ \/ \E b \in Questions :
            /\ qbody' = [qbody EXCEPT ![q] = b]
            /\ qpc' = [qpc EXCEPT ![q] = "count"]
       \/ /\ qpc' = [qpc EXCEPT ![q] = "aborted"]
          /\ UNCHANGED qbody
    /\ UNCHANGED <<qn, qres, qreq, qgot, qerr, goVars, qh>>
    /\ UNCHANGED <<ingestVars, consumeVars, storeVars, histVars, otherVars,
                   panicked>>

\* main.go:95-97, db.GetCollection("fox", nil) and the argument col.Count():
\* on a nil collection Count panics, which gin's recovery turns into a 500.
QueryCount(q) ==
    /\ Running
    /\ qpc[q] = "count"
    /\ IF colExists
       THEN /\ qn' = [qn EXCEPT ![q] = Count]
            /\ qpc' = [qpc EXCEPT ![q] = "query"]
            /\ UNCHANGED qerr
       ELSE /\ qpc' = [qpc EXCEPT ![q] = "failed"]
            /\ qerr' = [qerr EXCEPT ![q] = "nil collection"]
            /\ UNCHANGED qn
    /\ UNCHANGED <<qbody, qres, qreq, qgot, goVars, qh>>
    /\ UNCHANGED <<ingestVars, consumeVars, storeVars, histVars, otherVars,
                   panicked>>

\* The error of col.Query(ctx, input, n, nil, nil): chromem rejects
\* nResults <= 0 and nResults above the number of documents, and fails when
\* the embedder fails on the query text (ok = FALSE).
QueryError(n, ok) ==
    IF n <= 0 THEN "nResults must be > 0"
    ELSE IF ~ok THEN "embedding"
    ELSE IF n > Count THEN "nResults must be <= the number of documents"
    ELSE "none"

\* A query that appends its user message although the retrieval failed.
QueryRetrieveAppending(q) ==
    /\ Running
    /\ qpc[q] = "query"
    /\ \E ok \in BOOLEAN :
        IF QueryError(qn[q], ok) = "none"
        THEN /\ \E r \in Rankings(qn[q]) :
                    qres' = [qres EXCEPT ![q] = Contents(r)]
             /\ qpc' = [qpc EXCEPT ![q] = "history"]
             /\ UNCHANGED <<qerr, histVars>>
        ELSE /\ qpc' = [qpc EXCEPT ![q] = "failed"]
             /\ qerr' = [qerr EXCEPT ![q] = QueryError(qn[q], ok)]
             /\ HistoryStore(messages, UserMessage(q))
             /\ UNCHANGED qres
    /\ UNCHANGED <<qbody, qn, qreq, qgot, goVars, qh>>
    /\ UNCHANGED <<ingestVars, consumeVars, storeVars, otherVars, panicked>>

\* main.go:97-101, col.Query: without an error it returns the n most
\* similar documents; an error panics in the handler (500).
QueryRetrieve(q) ==
    /\ Running
    /\ qpc[q] = "query"
    /\ \E ok \in BOOLEAN :
        IF QueryError(qn[q], ok) = "none"
        THEN /\ \E r \in Rankings(qn[q]) :
                    qres' = [qres EXCEPT ![q] = Contents(r)]
             /\ qpc' = [qpc EXCEPT ![q] = "history"]
             /\ UNCHANGED qerr
        ELSE /\ qpc' = [qpc EXCEPT ![q] = "failed"]
             /\ qerr' = [qerr EXCEPT ![q] = QueryError(qn[q], ok)]
             /\ UNCHANGED qres
    /\ UNCHANGED <<qbody, qn, qreq, qgot, goVars, qh>>
    /\ UNCHANGED <<ingestVars, consumeVars, storeVars, histVars, otherVars,
                   panicked>>

\* main.go:109 and 54: history("User", ...) reads the global slice.
QueryHistoryLoad(q) ==
    /\ Running
    /\ qpc[q] = "history"
    /\ qh' = [qh EXCEPT ![q] = messages]
    /\ qpc' = [qpc EXCEPT ![q] = "append"]
    /\ UNCHANGED <<qbody, qn, qres, qreq, qgot, qerr, goVars>>
    /\ UNCHANGED <<ingestVars, consumeVars, storeVars, histVars, otherVars,
                   panicked>>

\* main.go:109 and 54: history("User", ...) stores the appended slice.
QueryHistoryStore(q) ==
    /\ Running
    /\ qpc[q] = "append"
    /\ HistoryStore(qh[q], UserMessage(q))
    /\ qh' = [qh EXCEPT ![q] = NoMsgs]
    /\ qpc' = [qpc EXCEPT ![q] = "request"]
    /\ UNCHANGED <<qbody, qn, qres, qreq, qgot, qerr, goVars>>
    /\ UNCHANGED <<ingestVars, consumeVars, storeVars, otherVars, panicked>>

\* main.go:111-142 and 191: the request takes the global slice, the channel
\* is made, the goroutine started and the handler waits for the answer.
QueryRequest(q) ==
    /\ Running
    /\ qpc[q] = "request"
    /\ qreq' = [qreq EXCEPT ![q] = messages]
    /\ answer' = [answer EXCEPT ![q] = NoChan]
    /\ gpc' = [gpc EXCEPT ![q] = "chat"]
    /\ qpc' = [qpc EXCEPT ![q] = "wait"]
    /\ UNCHANGED <<qbody, qn, qres, qgot, qerr, ganswer, gchunks, gidx, qh>>
    /\ UNCHANGED <<ingestVars, consumeVars, storeVars, histVars, otherVars,
                   panicked>>

\* main.go:191-193, answer := <-query(...): the receive takes the buffered
\* value, or the zero value of a closed and empty channel, and the handler
\* responds with it.
QueryReceive(q) ==
    /\ Running
    /\ qpc[q] = "wait"
    /\ answer[q].buf # <<>> \/ answer[q].closed
    /\ IF answer[q].buf # <<>>
       THEN /\ qgot' = [qgot EXCEPT ![q] = Head(answer[q].buf)]
            /\ answer' = [answer EXCEPT ![q].buf = Tail(@)]
       ELSE /\ qgot' = [qgot EXCEPT ![q] = <<>>]
            /\ UNCHANGED answer
    /\ qpc' = [qpc EXCEPT ![q] = "done"]
    /\ UNCHANGED <<qbody, qn, qres, qreq, qerr, gpc, ganswer, gchunks, gidx, qh>>
    /\ UNCHANGED <<ingestVars, consumeVars, storeVars, histVars, otherVars,
                   panicked>>

\* main.go:49 and 114, Stream: &stream with stream = false: the model server
\* is asked for one response object.
Unstreamed == {1}

\* The numbers of response objects of a server that splits its answer.
Streamed == 1..MaxChunks

\* The contents of the response objects of a chat answered in k objects,
\* k in K.
Responses(K) == UNION {[1..k -> Answers] : k \in K}

\* A chat whose failure is reported to the handler as an empty answer.
GoChatAnswering(q, K) ==
    /\ Running
    /\ gpc[q] = "chat"
    /\ \/ /\ \E c \in Responses(K) :
                /\ gchunks' = [gchunks EXCEPT ![q] = c]
                /\ ganswer' = [ganswer EXCEPT ![q] = c[1]]
          /\ gidx' = [gidx EXCEPT ![q] = 1]
          /\ gpc' = [gpc EXCEPT ![q] = "history"]
          /\ UNCHANGED <<panicked, answer>>
       \/ /\ answer' = [answer EXCEPT ![q] = [buf |-> <<<<>>>>, closed |-> TRUE]]
          /\ gpc' = [gpc EXCEPT ![q] = "failed"]
          /\ UNCHANGED <<ganswer, gchunks, gidx, panicked>>
    /\ UNCHANGED <<handlerVars, qh>>
    /\ UNCHANGED <<ingestVars, consumeVars, storeVars, histVars, otherVars>>

\* main.go:128 and 137-139, client.Chat: the model server answers with the
\* response objects, for each of which in turn the callback runs, or the
\* call fails and the goroutine panics, which ends the process.
GoChat(q, K) ==
    /\ Running
    /\ gpc[q] = "chat"
    /\ \/ /\ \E c \in Responses(K) :
                /\ gchunks' = [gchunks EXCEPT ![q] = c]
                /\ ganswer' = [ganswer EXCEPT ![q] = c[1]]
          /\ gidx' = [gidx EXCEPT ![q] = 1]
          /\ gpc' = [gpc EXCEPT ![q] = "history"]
          /\ UNCHANGED panicked
       \/ /\ panicked' = "chat"
          /\ gpc' = [gpc EXCEPT ![q] = "failed"]
          /\ UNCHANGED <<ganswer, gchunks, gidx>>
    /\ UNCHANGED <<handlerVars, answer, qh>>
    /\ UNCHANGED <<ingestVars, consumeVars, storeVars, histVars, otherVars>>

\* main.go:129 and 54: history("Assistant", ...) reads the global slice.
GoHistoryLoad(q) ==
    /\ Running
    /\ gpc[q] = "history"
    /\ qh' = [qh EXCEPT ![q] = messages]
    /\ gpc' = [gpc EXCEPT ![q] = "append"]
    /\ UNCHANGED <<handlerVars, ganswer, gchunks, gidx, answer>>
    /\ UNCHANGED <<ingestVars, consumeVars, storeVars, histVars, otherVars,
                   panicked>>

\* main.go:129 and 54: history("Assistant", ...) stores the appended slice.
GoHistoryStore(q) ==
    /\ Running
    /\ gpc[q] = "append"
    /\ HistoryStore(qh[q], AssistantMessage(q))
    /\ qh' = [qh EXCEPT ![q] = NoMsgs]
    /\ gpc' = [gpc EXCEPT ![q] = "send"]
    /\ UNCHANGED <<handlerVars, ganswer, gchunks, gidx, answer>>
    /\ UNCHANGED <<ingestVars, consumeVars, storeVars, otherVars, panicked>>

\* main.go:131, answer <- res.Message.Content on the channel of capacity 1:
\* a send on a closed channel panics, a send on a full one waits.
GoSend(q) ==
    /\ Running
    /\ gpc[q] = "send"
    /\ IF answer[q].closed
       THEN /\ panicked' = "chat"
            /\ UNCHANGED <<gpc, answer>>
       ELSE /\ answer[q].buf = <<>>
            /\ answer' = [answer EXCEPT ![q].buf = <<ganswer[q]>>]
            /\ gpc' = [gpc EXCEPT ![q] = "close"]
            /\ UNCHANGED panicked
    /\ UNCHANGED <<handlerVars, ganswer, gchunks, gidx, qh>>
    /\ UNCHANGED <<ingestVars, consumeVars, storeVars, histVars, otherVars>>

\* main.go:133-134, close(answer); the callback returns nil, and Chat goes
\* on to the next response object or returns nil after the last.
GoClose(q) ==
    /\ Running
    /\ gpc[q] = "close"
    /\ IF answer[q].closed
       THEN /\ panicked' = "chat"
            /\ UNCHANGED <<gpc, ganswer, gidx, answer>>
       ELSE /\ answer' = [answer EXCEPT ![q].closed = TRUE]
            /\ IF gidx[q] < Len(gchunks[q])
               THEN /\ gidx' = [gidx EXCEPT ![q] = @ + 1]
                    /\ ganswer' = [ganswer EXCEPT ![q] =
                                       gchunks[q][gidx[q] + 1]]
                    /\ gpc' = [gpc EXCEPT ![q] = "history"]
               ELSE /\ gpc' = [gpc EXCEPT ![q] = "done"]
                    /\ UNCHANGED <<ganswer, gidx>>
            /\ UNCHANGED panicked
    /\ UNCHANGED <<handlerVars, gchunks, qh>>
    /\ UNCHANGED <<ingestVars, consumeVars, storeVars, histVars, otherVars>>

\* ------------------------------------------------------------------- Next

\* The ingestion pipeline under the requests E.
Ingest(E) ==
    \/ \E e \in E : EventRead(e)
    \/ \E e \in E : EventSend(e)
    \/ \E e \in E : EventRespond(e)
    \/ ConsumeCreate
    \/ ConsumeRecv
    \/ ConsumeAdd

\* The query pipeline under the requests Q, each chat answered in a number
\* of response objects of K.
Queries(Q, K) ==
    \/ \E q \in Q : QueryRead(q)
    \/ \E q \in Q : QueryCount(q)
    \/ \E q \in Q : QueryRetrieve(q)
    \/ \E q \in Q : QueryHistoryLoad(q)
    \/ \E q \in Q : QueryHistoryStore(q)
    \/ \E q \in Q : QueryRequest(q)
    \/ \E q \in Q : QueryReceive(q)
    \/ \E q \in Q : GoChat(q, K)
    \/ \E q \in Q : GoHistoryLoad(q)
    \/ \E q \in Q : GoHistoryStore(q)
    \/ \E q \in Q : GoSend(q)
    \/ \E q \in Q : GoClose(q)

\* The server under MaxQueries queries and MaxQueryEvents events.
Next ==
    \/ Ingest(1..MaxQueryEvents)
    \/ Queries(QueryReqs, Unstreamed)
    \/ Preload

Spec == Init /\ [][Next]_vars

\* The server under MaxRetrieveQueries queries, MaxRetrieveEvents events
\* and GET /event.
NextRetrieve ==
    \/ Ingest(1..MaxRetrieveEvents)
    \/ Queries(1..MaxRetrieveQueries, Unstreamed)
    \/ GetEvent
    \/ Preload

SpecRetrieve == Init /\ [][NextRetrieve]_vars

\* The server under MaxEvents events and GET /event.
NextIngest ==
    \/ Ingest(EventReqs)
    \/ GetEvent
    \/ Preload

SpecIngest == Init /\ [][NextIngest]_vars

\* The server under MaxRetrieveQueries queries and MaxQueryEvents events,
\* with a model server that answers in up to MaxChunks response objects.
NextStream ==
    \/ Ingest(1..MaxQueryEvents)
    \/ Queries(1..MaxRetrieveQueries, Streamed)
    \/ Preload

SpecStream == Init /\ [][NextStream]_vars

\* The server under MaxRetrieveEvents events until main ends.
NextClose ==
    \/ Ingest(1..MaxRetrieveEvents)
    \/ ConsumeExit
    \/ ServerReturn
    \/ MainClose
    \/ MainReturn

SpecClose == Init /\ [][NextClose]_vars

\* Fairness: every started goroutine is scheduled again and again, so it
\* takes its next step when that step stays possible.
Fairness(E, Q) ==
    /\ \A e \in E : WF_vars(EventSend(e)) /\ WF_vars(EventRespond(e))
    /\ WF_vars(ConsumeCreate) /\ WF_vars(ConsumeRecv) /\ WF_vars(ConsumeAdd)
    /\ WF_vars(Preload)
    /\ \A q \in Q :
        /\ WF_vars(QueryCount(q)) /\ WF_vars(QueryRetrieve(q))
        /\ WF_vars(QueryHistoryLoad(q)) /\ WF_vars(QueryHistoryStore(q))
        /\ WF_vars(QueryRequest(q)) /\ WF_vars(QueryReceive(q))
        /\ WF_vars(GoChat(q, Unstreamed)) /\ WF_vars(GoHistoryLoad(q))
        /\ WF_vars(GoHistoryStore(q)) /\ WF_vars(GoSend(q))
        /\ WF_vars(GoClose(q))

FairSpec == Spec /\ Fairness(1..MaxQueryEvents, QueryReqs)

FairSpecIngest == SpecIngest /\ Fairness(EventReqs, {})

\* ----------------------------------------------------------------- claims

\* A query is in flight from the read of its body to the end of its handler
\* and of its goroutine.
InFlight(q) ==
    \/ qpc[q] \in {"count", "query", "history", "append", "request", "wait"}
    \/ gpc[q] \in {"chat", "history", "append", "send", "close"}

\* The queries that have completed successfully.
Completed == {q \in QueryReqs : qpc[q] = "done" /\ gpc[q] = "done"}

Quiescent == \A q \in QueryReqs : ~InFlight(q)

\* C1: whenever no query is in flight the history holds 1 + 2N messages, N
\* the number of queries completed successfully, and no step makes the
\* history shorter.
C1_HistoryMonotonic ==
    /\ [](Quiescent => Len(History) = 1 + 2 * Cardinality(Completed))
    /\ [][Len(History') >= Len(History)]_vars

\* The history is the system message followed by one user/assistant pair
\* per query of Q, each user message followed by its query's assistant
\* message.
Paired(Q) ==
    /\ Len(History) = 1 + 2 * Cardinality(Q)
    /\ History[1].role = "System"
    /\ \A k \in 1..Cardinality(Q) :
        /\ History[2 * k].role = "User"
        /\ History[2 * k + 1].role = "Assistant"
        /\ History[2 * k].of = History[2 * k + 1].of
    /\ \A q \in Q : \E k \in 1..Cardinality(Q) : History[2 * k].of = q

\* C2: once two queries have both completed, the history holds exactly 5
\* messages, the system message and the two user/assistant pairs, each
\* user message immediately followed by its own query's assistant message.
C2_ConcurrentQueriesPaired ==
    (Quiescent /\ Cardinality(Completed) = 2) => Paired(Completed)

\* A slice of messages holds exactly one system message, at its head.
OneSystemFirst(msgs) ==
    /\ Len(msgs) >= 1
    /\ msgs[1].role = "System"
    /\ \A i \in 2..Len(msgs) : msgs[i].role # "System"

\* C9: the history, every slice a running history() has read and every
\* request's messages hold exactly one system message, as first element.
C9_OneSystemMessageFirst ==
    /\ OneSystemFirst(History)
    /\ \A q \in QueryReqs :
        /\ qh[q] # NoMsgs => OneSystemFirst(Slice(qh[q]))
        /\ qreq[q] # NoMsgs => OneSystemFirst(Slice(qreq[q]))

\* C9 witness: two queries have completed although an append of one was
\* lost to the other, and a request was built from the history.
C9_Witness ==
    /\ Cardinality(Completed) = 2
    /\ Len(History) < 5
    /\ \E q \in QueryReqs : Len(Slice(qreq[q])) >= 2

\* The items received or buffered but not yet stored, oldest first.
Pending == (IF cpc = "add" THEN <<cevent>> ELSE <<>>) \o events

\* C3: the items stored so far, followed by the item the consumer is
\* inserting and by the buffered items, are the accepted items in the order
\* of their acceptance: the consumer inserts one item at a time, in the
\* order the channel accepted them.
C3_FIFOIngestion == accepted = inserted \o Pending

\* C3 witness: three items were stored, not all alike, and one of their
\* handlers had found the channel full.
C3_Witness ==
    /\ Len(inserted) = 3
    /\ inserted[1] # inserted[2]
    /\ blocked # {}

\* A handler waiting to send keeps its item, and waits only at a full buffer.
ParkedKeepItem ==
    \A e \in EventReqs :
        epc[e] = "parked" =>
            /\ Len(events) = Capacity
            /\ ebody[e] \in Bodies
            /\ \E i \in 1..Len(sendq) : sendq[i] = e

\* The step in which the send of handler e completes: with room the item
\* joins the buffer and nothing leaves it; from a full buffer the consumer
\* takes the head in the same step and the item joins behind the rest.
SendCompletes(e) ==
    (epc[e] \in {"send", "parked"} /\ epc'[e] = "respond") =>
        IF Len(events) < Capacity
        THEN events' = Append(events, ebody[e])
        ELSE /\ epc[e] = "parked"
             /\ cpc = "recv" /\ cpc' = "add"
             /\ cevent' = Head(events)
             /\ events' = Append(Tail(events), ebody[e])

\* A handler whose send finds the buffer full does not complete and changes
\* neither the buffer nor its item.
SendWaits(e) ==
    (epc[e] = "send" /\ Len(events) >= Capacity /\ epc'[e] # "send") =>
        /\ epc'[e] = "parked"
        /\ events' = events
        /\ ebody' = ebody

\* C4: the buffer never holds more than its capacity; a POST /event that
\* finds it full waits with its item, no queued item is discarded, and its
\* send completes only in a step in which the consumer dequeues an item.
C4_Backpressure ==
    /\ [](Len(events) <= Capacity /\ ParkedKeepItem)
    /\ [][\A e \in EventReqs : SendCompletes(e) /\ SendWaits(e)]_vars

\* C4 witness: a handler that had found the buffer full has completed its
\* send and the buffer is full again.
C4_Witness ==
    /\ \E e \in blocked : epc[e] \in {"respond", "done"}
    /\ Len(events) = Capacity

\* The ids of the contents stored so far.
InsertedIDs == {DocID(inserted[i]) : i \in 1..Len(inserted)}

\* The distinct contents stored so far.
InsertedContents == {inserted[i] : i \in 1..Len(inserted)}

\* C5 as stated: the document count is the number of distinct contents
\* inserted so far.
C5_CountIsDistinctContents == Count = Cardinality(InsertedContents)

\* C5 amended: the document count is the number of distinct ids of the
\* contents inserted so far; an insert of a content already stored leaves
\* the count unchanged; a successful GET /event reports that count.
C5_IdempotentIngestion ==
    /\ [](Count = Cardinality(InsertedIDs))
    /\ [][(inserted' # inserted /\ cevent \in InsertedContents)
            => Cardinality(DOMAIN documents') = Count]_vars
    /\ [][(lastGet' # lastGet /\ lastGet'[1] = 200)
            => lastGet'[2] = Cardinality(InsertedIDs)]_vars

\* C5 witness: one content was inserted twice, another content of the same
\* id after it, and GET /event reported one document.
C5_Witness ==
    /\ Len(inserted) = 3
    /\ inserted[1] = inserted[2]
    /\ inserted[3] # inserted[1]
    /\ DocID(inserted[3]) = DocID(inserted[1])
    /\ lastGet = <<200, 1>>

\* C6: the channel of a query never holds a second value, nothing is sent
\* on it once it is closed, and the handler that waits on it eventually
\* receives its one outcome.
C6_OneShotCompletion ==
    /\ [](\A q \in QueryReqs : Len(answer[q].buf) <= 1)
    /\ [][\A q \in QueryReqs :
            answer[q].closed => Len(answer'[q].buf) <= Len(answer[q].buf)]_vars
    /\ \A q \in QueryReqs : (qpc[q] = "wait") ~> (qpc[q] = "done")

\* The step in which col.Query of query q returns its results.
Retrieves(q) == qpc[q] = "query" /\ qpc'[q] = "history"

C8_EmptyCollectionSucceeds ==
    [][\A q \in QueryReqs :
        (qpc[q] = "query" /\ qn[q] = 0 /\ qpc'[q] # "query"
            /\ qerr'[q] # "embedding")
        => (qpc'[q] = "history" /\ qres'[q] = <<>>)]_vars

\* The messages of role r filed for query q, in any array of the history.
Filed(r, q) ==
    {m \in UNION {{arrays[a].elems[i] : i \in 1..Len(arrays[a].elems)} :
                    a \in 1..Len(arrays)} : m.role = r /\ m.of = q}

\* C13: a query whose chat failed never completes: its handler has no
\* answer and does not respond, nothing was sent on its channel and no
\* assistant message was appended for it.
C13_FailedChatDeliversNothing ==
    \A q \in QueryReqs :
        gpc[q] = "failed" =>
            /\ qpc[q] = "wait"
            /\ qgot[q] = NoBody
            /\ answer[q] = NoChan
            /\ Filed("Assistant", q) = {}

\* A chat has failed after another query has completed.
C13_Witness ==
    \E q, p \in QueryReqs :
        /\ gpc[q] = "failed"
        /\ Filed("User", q) # {}
        /\ p \in Completed

\* C14: the step at which the embedder fails on an insert stores nothing,
\* and from then on no step stores a document, receives from the channel or
\* enqueues an item.
C14_EmbedFailureStopsIngestion ==
    [][/\ (panicked = "none" /\ panicked' = "consume") =>
            (documents' = documents /\ inserted' = inserted)
       /\ panicked = "consume" =>
            /\ documents' = documents
            /\ inserted' = inserted
            /\ events' = events
            /\ accepted' = accepted]_vars

\* The embedder has failed on an insert, after an earlier insert, with an
\* item still in the channel.
C14_Witness ==
    /\ panicked = "consume"
    /\ cpc = "add"
    /\ inserted # <<>>
    /\ events # <<>>

\* The state the requests share: the channel and its senders, the
\* collection, the history and the chats started.
Shared == <<events, sendq, accepted, storeVars, histVars, gpc, answer>>

\* C15: the step at which the read of a request body fails, of POST /event
\* or of POST /query, changes nothing of the shared state.
C15_ReadErrorChangesNothing ==
    [][/\ \A e \in EventReqs :
            (epc[e] = "idle" /\ epc'[e] = "aborted") => Shared' = Shared
       /\ \A q \in QueryReqs :
            (qpc[q] = "idle" /\ qpc'[q] = "aborted") => Shared' = Shared]_vars

\* The read of the body has failed in a POST /event and in a POST /query.
C15_Witness ==
    /\ \E e \in EventReqs : epc[e] = "aborted"
    /\ \E q \in QueryReqs : qpc[q] = "aborted"

\* The history holds an assistant message of content c.
HasAssistant(c) ==
    \E i \in 1..Len(History) :
        History[i].role = "Assistant" /\ History[i].content = c

\* C16: at the step at which a handler receives its answer, the history
\* holds an assistant message with the content received.
C16_AppendedBeforeDelivered ==
    [][\A q \in QueryReqs :
          (qpc[q] = "wait" /\ qpc'[q] = "done") => HasAssistant(qgot'[q])]_vars

\* The messages of a request start with the system message and hold the
\* user message of the request's own query.
OwnRequest(q, msgs) ==
    /\ msgs # <<>>
    /\ msgs[1] = Message("System", 0, PromptText)
    /\ \E i \in 1..Len(msgs) : msgs[i] = UserMessage(q)

\* C17: the messages a query puts into its request, at the step that builds
\* the request, start with the system message and hold the query's own
\* user message, made of its question and the documents it retrieved.
C17_RequestHoldsOwnQuestion ==
    [][\A q \in QueryReqs :
          (qpc[q] = "request" /\ qpc'[q] = "wait") =>
              OwnRequest(q, Slice(qreq'[q]))]_vars

\* C18: no GET /event and no POST /query finds the collection missing.
C18_CollectionExistsAtLookup ==
    /\ lastGet # <<500>>
    /\ \A q \in QueryReqs : qerr[q] # "nil collection"

\* C19: the step at which the retrieval of a query fails leaves the history
\* unchanged; a query whose retrieval failed has no user message in the
\* history and no chat, and a query has a user message only once its
\* retrieval has succeeded.
C19_FailedRetrievalLeavesHistory ==
    /\ [][\A q \in QueryReqs :
             (qpc[q] # "failed" /\ qpc'[q] = "failed") =>
                 histVars' = histVars]_vars
    /\ [](\A q \in QueryReqs :
             /\ qpc[q] = "failed" =>
                    /\ Filed("User", q) = {}
                    /\ gpc[q] = "none"
                    /\ qreq[q] = NoMsgs
             /\ Filed("User", q) # {} =>
                    /\ qpc[q] \in {"request", "wait", "done"}
                    /\ qerr[q] = "none")

\* The retrieval of a query has failed in the embedder after another query
\* has completed.
C19_Witness ==
    \E q \in QueryReqs :
        /\ qpc[q] = "failed"
        /\ qerr[q] = "embedding"
        /\ Completed # {}

\* The channel with its senders and the collection.
Pipeline == <<events, sendq, accepted, storeVars>>

\* C20: no step lowers the number of documents or removes a document; a
\* GET /event that follows another reports no smaller count; the steps of
\* GET /event and of the queries leave the collection and the channel as
\* they are.
C20_CountNeverDecreases ==
    [][/\ Count' >= Count
       /\ DOMAIN documents \subseteq DOMAIN documents'
       /\ (Len(lastGet) = 2 /\ Len(lastGet') = 2) => lastGet'[2] >= lastGet[2]
       /\ lastGet' # lastGet => Pipeline' = Pipeline
       /\ queryVars' # queryVars => Pipeline' = Pipeline]_vars

\* A GET /event has reported all the documents of the run after a query
\* has completed.
C20_Witness ==
    /\ lastGet = <<200, MaxRetrieveEvents>>
    /\ \E q \in QueryReqs : qpc[q] = "done"

RECURSIVE Concat(_)
\* The strings of a sequence joined in order.
Concat(ss) == IF ss = <<>> THEN <<>> ELSE Head(ss) \o Concat(Tail(ss))

\* C12: the answer a handler has received is the concatenation, in order,
\* of the contents of all the response objects the model server delivered
\* for its chat.
C12_AnswerIsConcatenation ==
    \A q \in QueryReqs :
        (qpc[q] = "done" /\ gchunks[q] # <<>>) =>
            qgot[q] = Concat(gchunks[q])

\* The process has ended by the return of main, after close(events).
Ended == closed /\ panicked = "exit"

\* C11: when the process ends after the close of the channel, every item
\* that the channel had accepted is stored and the consumer has exited.
C11_CloseDrains == Ended => (inserted = accepted /\ cpc = "exited")

\* C10: a POST /event responds only once its item is accepted into the
\* channel, and the k-th accepted item is eventually stored, unless an
\* insert fails.
C10_AcceptedEventuallyInserted ==
    /\ [](\A e \in EventReqs :
            epc[e] \in {"respond", "done"} =>
                \E i \in 1..Len(accepted) : accepted[i] = ebody[e])
    /\ \A k \in EventReqs :
        (Len(accepted) >= k) ~> (Len(inserted) >= k \/ panicked = "consume")
====
